---- MODULE Spec2Model ----
(***************************************************************************)
(* Binary-heap priority queue of src/src/heap.c: an array-backed complete  *)
(* binary tree of opaque payload references, ordered by an injected        *)
(* comparison function.  Every public function is one action; the private  *)
(* helpers (index arithmetic, Swap, HeapifyUp, HeapifyDown) are operators   *)
(* computed the way the C code computes them.                               *)
(***************************************************************************)
EXTENDS Integers, Sequences, FiniteSets, TLC

\* ------------------------------------------------------------------ bounds
NumRefs == 2        \* distinct payload references the caller owns
MaxKey  == 2        \* payload priorities range over 1..MaxKey
MaxSize == 4        \* the caller stops inserting at this many live elements
GrowthInserts == 17 \* payloads scenario B inserts into a heap of capacity 1
BigCapacity == 32   \* capacity of the heap that never grows
MaxEnqueues == 5    \* successful enqueues the queue's caller makes on one queue
MaxPushes == 5      \* successful pushes the stack's caller makes on one stack

\* --------------------------------------------------------------- constants
NULL   == 0         \* the null pointer (absent instance, absent payload)
Uninit == -1        \* content of a slot malloc/realloc handed out unwritten
false  == 0         \* C's bool
true   == 1
DefaultCapacity == 16
SizeError == -1     \* HeapSize on an absent instance
HEAP   == 1         \* the address HeapCreate returns on success
FREE   == 1         \* the address of the caller's destructor
QueueDefaultCapacity == 8
QueueSizeError == -1 \* QueueSize on an absent instance
StackDefaultCapacity == 8
StackSizeError == -1 \* StackSize on an absent instance

Refs == 1..NumRefs
Keys == 1..MaxKey
CapacityHints == {0, 1}

\* The priorities the payloads start with.  Payload references are opaque
\* addresses, so they are numbered in the order of their first priorities.
KeyMaps == {k \in [Refs -> Keys] : \A a, b \in Refs : a < b => k[a] <= k[b]}

VARIABLES
    myHeap,     \* the caller's handle: NULL or HEAP
    data,       \* struct Heap_t: the backing array, indexed 0..capacity-1
    capacity,   \* struct Heap_t: allocated slots
    size,       \* struct Heap_t: live elements
    key,        \* the payloads' priorities, owned by the caller
    pending,    \* the payload whose priority the caller changed and has not
                \* yet reported through HeapUpdatePriority (NULL: none)
    aliased,    \* history: the caller has changed the priority of a payload
                \* that more than one live slot referred to
    last,       \* the last call: [op, arg, ret, at]; at is the index
                \* HeapUpdatePriority located its payload at (else -1)
    harness,    \* the test harness' own records (see SpecRun)
    freeFn,     \* struct Heap_t: the destructor given at creation, or NULL
    released,   \* the storage of the instance has been handed back to free()
    freed,      \* the payloads the destructor was called on, in order
    myQueue,    \* the caller's queue: a struct Queue_t, or NullQueue
    queueRun,   \* the queue's caller: [last, enqueued, dequeued, freed]
    myStack,    \* the caller's stack: a Stack_t, or NullStack
    stackRun,   \* the stack's caller: [last, given, held, pushes, pops, freed]
    sift        \* a heap function run loop iteration by loop iteration (see
                \* SpecSift): [cmpFn, fn, currentIndex, caller, targetIndex]

\* The state of the heap's lifetime, which only HeapCreate and HeapDestroy write.
lifetime == <<freeFn, released, freed>>

\* The containers other than the heap, and the iteration-wise run, which
\* the public functions taken as single steps leave alone.
otherContainers == <<myQueue, queueRun, myStack, stackRun, sift>>

vars == <<myHeap, data, capacity, size, key, pending, aliased, last, harness,
          freeFn, released, freed, myQueue, queueRun, myStack, stackRun, sift>>

\* ------------------------------------------------------- private functions
\* CompareFn_t: > 0 when a has priority over b ("max by integer key").
CmpFn(a, b) == key[a] - key[b]

\* The same oracle reading the priorities from k instead.
CmpUnder(k, a, b) == k[a] - k[b]

HeapIsEmpty(n) == n = 0

HeapIsFull(n, cap) == n = cap

\* C's integer division truncates toward zero.
GetParent(index) ==
    IF index - 1 >= 0 THEN (index - 1) \div 2 ELSE 0 - ((1 - index) \div 2)

GetLeftChild(index) == (2 * index) + 1

GetRightChild(index) == (2 * index) + 2

\* Swap without its temporary: slot b keeps what it held.
SwapNoTemp(arr, a, b) == [arr EXCEPT ![a] = arr[b]]

Swap(arr, a, b) == [arr EXCEPT ![a] = arr[b], ![b] = arr[a]]

\* ExtremeIndex with the right child tested against the current node instead
\* of the candidate the left child's test left.
ExtremeIndexAgainstCurrent(arr, n, currentIndex) ==
    LET leftChild  == GetLeftChild(currentIndex)
        rightChild == GetRightChild(currentIndex)
    IN  IF rightChild < n /\ CmpFn(arr[rightChild], arr[currentIndex]) > 0
        THEN rightChild
        ELSE IF leftChild < n /\ CmpFn(arr[leftChild], arr[currentIndex]) > 0
        THEN leftChild ELSE currentIndex

\* ExtremeIndex without the right child's test.
ExtremeIndexLeftOnly(arr, n, currentIndex) ==
    LET leftChild == GetLeftChild(currentIndex)
    IN  IF leftChild < n /\ CmpFn(arr[leftChild], arr[currentIndex]) > 0
        THEN leftChild ELSE currentIndex

\* ExtremeIndex with >= 0 in place of > 0: a child of equal priority is taken.
ExtremeIndexNonStrict(arr, n, currentIndex) ==
    LET leftChild  == GetLeftChild(currentIndex)
        rightChild == GetRightChild(currentIndex)
        afterLeft  == IF leftChild < n /\ CmpFn(arr[leftChild], arr[currentIndex]) >= 0
                      THEN leftChild ELSE currentIndex
    IN  IF rightChild < n /\ CmpFn(arr[rightChild], arr[afterLeft]) >= 0
        THEN rightChild ELSE afterLeft

\* One iteration of HeapifyDown's loop body up to the exit test: the index
\* the current node is about to be exchanged with (itself: stop).
ExtremeIndex(arr, n, currentIndex) ==
    LET leftChild  == GetLeftChild(currentIndex)
        rightChild == GetRightChild(currentIndex)
        afterLeft  == IF leftChild < n /\ CmpFn(arr[leftChild], arr[currentIndex]) > 0
                      THEN leftChild ELSE currentIndex
    IN  IF rightChild < n /\ CmpFn(arr[rightChild], arr[afterLeft]) > 0
        THEN rightChild ELSE afterLeft

RECURSIVE HeapifyDown(_, _, _)
HeapifyDown(arr, n, index) ==
    LET extremeIndex == ExtremeIndex(arr, n, index)
    IN  IF extremeIndex = index THEN arr
        ELSE HeapifyDown(Swap(arr, index, extremeIndex), n, extremeIndex)

\* HeapifyUp without its loop: one comparison, at most one swap.
HeapifyUpOneLevel(arr, index) ==
    IF index > 0 /\ CmpFn(arr[index], arr[GetParent(index)]) > 0
    THEN Swap(arr, index, GetParent(index))
    ELSE arr

\* HeapifyUp with >= 0 in place of > 0: it also swaps on equal priority.
RECURSIVE HeapifyUpNonStrict(_, _)
HeapifyUpNonStrict(arr, index) ==
    IF index > 0 /\ CmpFn(arr[index], arr[GetParent(index)]) >= 0
    THEN HeapifyUpNonStrict(Swap(arr, index, GetParent(index)), GetParent(index))
    ELSE arr

RECURSIVE HeapifyUp(_, _)
HeapifyUp(arr, index) ==
    IF index > 0 /\ CmpFn(arr[index], arr[GetParent(index)]) > 0
    THEN HeapifyUp(Swap(arr, index, GetParent(index)), GetParent(index))
    ELSE arr

\* realloc to newCapacity slots: the old content is kept, the rest is unwritten.
Realloc(arr, cap, newCapacity) ==
    [i \in 0..(newCapacity - 1) |-> IF i < cap THEN arr[i] ELSE Uninit]

\* The scan without its break: the highest live index holding d, or -1.
TargetIndexNoBreak(arr, n, d) ==
    IF \E i \in 0..(n - 1) : arr[i] = d
    THEN CHOOSE i \in 0..(n - 1) :
            arr[i] = d /\ \A j \in (i + 1)..(n - 1) : arr[j] # d
    ELSE -1

\* HeapUpdatePriority's linear scan: the lowest live index holding d, or -1.
TargetIndex(arr, n, d) ==
    IF \E i \in 0..(n - 1) : arr[i] = d
    THEN CHOOSE i \in 0..(n - 1) :
            arr[i] = d /\ \A j \in 0..(i - 1) : arr[j] # d
    ELSE -1

\* ------------------------------------------------- the functions' bodies
\* A struct Heap_t as a value: [data, capacity, size].  The three operators
\* below are the bodies of HeapInsert, HeapExtract and HeapUpdatePriority
\* past the check of the instance; each returns the struct it leaves and ret.
Heap == [data |-> data, capacity |-> capacity, size |-> size]

\* Created with the queue's fallback of 8 slots in place of 16.
CreatedFallbackEight(cap) ==
    LET c == IF cap > 0 THEN cap ELSE 8
    IN  [data |-> [i \in 0..(c - 1) |-> Uninit], capacity |-> c, size |-> 0]

\* HeapCreate's struct on success.
Created(cap) ==
    LET c == IF cap > 0 THEN cap ELSE DefaultCapacity
    IN  [data |-> [i \in 0..(c - 1) |-> Uninit], capacity |-> c, size |-> 0]

\* Insert storing the new capacity before it tests what realloc returned.
InsertCommitBeforeCheck(h, d, reallocOk) ==
    IF HeapIsFull(h.size, h.capacity) /\ ~reallocOk
    THEN [data |-> h.data, capacity |-> h.capacity * 2, size |-> h.size, ret |-> false]
    ELSE LET newCapacity == IF HeapIsFull(h.size, h.capacity)
                            THEN h.capacity * 2 ELSE h.capacity
             tempData == IF HeapIsFull(h.size, h.capacity)
                         THEN Realloc(h.data, h.capacity, newCapacity) ELSE h.data
         IN  [data |-> HeapifyUp([tempData EXCEPT ![h.size] = d], h.size),
              capacity |-> newCapacity, size |-> h.size + 1, ret |-> true]

\* Insert growing a full array by one slot instead of doubling it.
InsertGrowByOne(h, d, reallocOk) ==
    IF HeapIsFull(h.size, h.capacity) /\ ~reallocOk
    THEN [data |-> h.data, capacity |-> h.capacity, size |-> h.size, ret |-> false]
    ELSE LET newCapacity == IF HeapIsFull(h.size, h.capacity)
                            THEN h.capacity + 1 ELSE h.capacity
             tempData == IF HeapIsFull(h.size, h.capacity)
                         THEN Realloc(h.data, h.capacity, newCapacity) ELSE h.data
         IN  [data |-> HeapifyUp([tempData EXCEPT ![h.size] = d], h.size),
              capacity |-> newCapacity, size |-> h.size + 1, ret |-> true]

\* Insert returning from the growth branch before the sift-up.
InsertSkipSiftOnGrow(h, d, reallocOk) ==
    IF HeapIsFull(h.size, h.capacity) /\ ~reallocOk
    THEN [data |-> h.data, capacity |-> h.capacity, size |-> h.size, ret |-> false]
    ELSE IF HeapIsFull(h.size, h.capacity)
    THEN [data |-> [Realloc(h.data, h.capacity, h.capacity * 2) EXCEPT ![h.size] = d],
          capacity |-> h.capacity * 2, size |-> h.size + 1, ret |-> true]
    ELSE [data |-> HeapifyUp([h.data EXCEPT ![h.size] = d], h.size),
          capacity |-> h.capacity, size |-> h.size + 1, ret |-> true]

\* d: the payload; reallocOk: whether realloc succeeds should it be called.
Insert(h, d, reallocOk) ==
    IF HeapIsFull(h.size, h.capacity) /\ ~reallocOk
    THEN [data |-> h.data, capacity |-> h.capacity, size |-> h.size, ret |-> false]
    ELSE LET newCapacity == IF HeapIsFull(h.size, h.capacity)
                            THEN h.capacity * 2 ELSE h.capacity
             tempData == IF HeapIsFull(h.size, h.capacity)
                         THEN Realloc(h.data, h.capacity, newCapacity) ELSE h.data
             insertIndex == h.size
         IN  [data |-> HeapifyUp([tempData EXCEPT ![insertIndex] = d], insertIndex),
              capacity |-> newCapacity,
              size |-> h.size + 1,
              ret |-> true]

\* Extract with the decrement of size moved into the block that sifts down.
ExtractKeepsLast(h) ==
    IF h.size = 0
    THEN [data |-> h.data, capacity |-> h.capacity, size |-> h.size, ret |-> NULL]
    ELSE LET temp == h.data[0]
             moved == [h.data EXCEPT ![0] = h.data[h.size - 1]]
         IN  [data |-> IF h.size - 1 > 0
                       THEN HeapifyDown(moved, h.size - 1, 0) ELSE moved,
              capacity |-> h.capacity,
              size |-> IF h.size - 1 > 0 THEN h.size - 1 ELSE h.size,
              ret |-> temp]

\* Extract reading the value to return after the last leaf overwrote index 0.
ExtractLateSave(h) ==
    IF h.size = 0
    THEN [data |-> h.data, capacity |-> h.capacity, size |-> h.size, ret |-> NULL]
    ELSE LET moved == [h.data EXCEPT ![0] = h.data[h.size - 1]]
         IN  [data |-> IF h.size - 1 > 0
                       THEN HeapifyDown(moved, h.size - 1, 0) ELSE moved,
              capacity |-> h.capacity,
              size |-> h.size - 1,
              ret |-> moved[0]]

Extract(h) ==
    IF h.size = 0
    THEN [data |-> h.data, capacity |-> h.capacity, size |-> h.size, ret |-> NULL]
    ELSE LET temp == h.data[0]
             moved == [h.data EXCEPT ![0] = h.data[h.size - 1]]
         IN  [data |-> IF h.size - 1 > 0
                       THEN HeapifyDown(moved, h.size - 1, 0) ELSE moved,
              capacity |-> h.capacity,
              size |-> h.size - 1,
              ret |-> temp]

\* UpdatePriority done as a removal and a new insertion: the payload changes
\* places with the last live one and both are sifted.
UpdatePriorityReinsert(h, d) ==
    IF d = NULL \/ h.size = 0 \/ TargetIndex(h.data, h.size, d) = -1
    THEN [data |-> h.data, capacity |-> h.capacity, size |-> h.size,
          ret |-> false, at |-> -1]
    ELSE LET targetIndex == TargetIndex(h.data, h.size, d)
             moved == Swap(h.data, targetIndex, h.size - 1)
         IN  [data |-> HeapifyUp(HeapifyDown(HeapifyUp(moved, targetIndex),
                                             h.size, targetIndex), h.size - 1),
              capacity |-> h.capacity, size |-> h.size,
              ret |-> true, at |-> targetIndex]

\* UpdatePriority repairing upward only.
UpdatePriorityUpOnly(h, d) ==
    IF d = NULL \/ h.size = 0 \/ TargetIndex(h.data, h.size, d) = -1
    THEN [data |-> h.data, capacity |-> h.capacity, size |-> h.size,
          ret |-> false, at |-> -1]
    ELSE [data |-> HeapifyUp(h.data, TargetIndex(h.data, h.size, d)),
          capacity |-> h.capacity, size |-> h.size,
          ret |-> true, at |-> TargetIndex(h.data, h.size, d)]

\* UpdatePriority with targetIndex starting at 0 instead of -1.
UpdatePriorityDefaultZero(h, d) ==
    IF d = NULL \/ h.size = 0
    THEN [data |-> h.data, capacity |-> h.capacity, size |-> h.size,
          ret |-> false, at |-> -1]
    ELSE LET found == TargetIndex(h.data, h.size, d)
             targetIndex == IF found = -1 THEN 0 ELSE found
         IN  [data |-> HeapifyDown(HeapifyUp(h.data, targetIndex),
                                   h.size, targetIndex),
              capacity |-> h.capacity, size |-> h.size,
              ret |-> true, at |-> targetIndex]

UpdatePriority(h, d) ==
    IF d = NULL \/ h.size = 0 \/ TargetIndex(h.data, h.size, d) = -1
    THEN [data |-> h.data, capacity |-> h.capacity, size |-> h.size,
          ret |-> false, at |-> -1]
    ELSE LET targetIndex == TargetIndex(h.data, h.size, d)
         IN  [data |-> HeapifyDown(HeapifyUp(h.data, targetIndex),
                                   h.size, targetIndex),
              capacity |-> h.capacity,
              size |-> h.size,
              ret |-> true,
              at |-> targetIndex]

\* The struct's fields become those of r.
Store(r) ==
    /\ data' = r.data
    /\ capacity' = r.capacity
    /\ size' = r.size

\* ------------------------------------------------------------- public API
\* What a call of HeapCreate was given, and how its two mallocs went.
CreateArgs(cap, cmpGiven, free, shellOk, arrayOk) ==
    [capacity |-> cap, cmpFn |-> cmpGiven, freeFn |-> free,
     shell |-> shellOk, array |-> arrayOk]

\* free: the destructor passed (NULL: none); shellOk, arrayOk: whether the
\* two mallocs succeed.
HeapCreate(cap, cmpGiven, free, shellOk, arrayOk) ==
    /\ myHeap = NULL
    /\ IF cmpGiven /\ shellOk /\ arrayOk
       THEN /\ myHeap' = HEAP
            /\ Store(Created(cap))
            /\ freeFn' = free
            /\ released' = FALSE
            /\ freed' = <<>>
            /\ last' = [op |-> "create", ret |-> HEAP, at |-> -1,
                        arg |-> CreateArgs(cap, cmpGiven, free, shellOk, arrayOk)]
       ELSE /\ last' = [op |-> "create", ret |-> NULL, at |-> -1,
                        arg |-> CreateArgs(cap, cmpGiven, free, shellOk, arrayOk)]
            /\ UNCHANGED <<myHeap, data, capacity, size, lifetime>>
    /\ UNCHANGED <<key, pending, aliased>>

HeapInsert(d, reallocOk) ==
    /\ IF myHeap = NULL
       THEN /\ last' = [op |-> "insert", arg |-> d, ret |-> false, at |-> -1]
            /\ UNCHANGED <<data, capacity, size>>
       ELSE \E r \in {Insert(Heap, d, reallocOk)} :
                /\ Store(r)
                /\ last' = [op |-> "insert", arg |-> d, ret |-> r.ret, at |-> -1]
    /\ UNCHANGED <<myHeap, key, pending, aliased, lifetime>>

HeapExtract ==
    /\ IF myHeap = NULL
       THEN /\ last' = [op |-> "extract", arg |-> NULL, ret |-> NULL, at |-> -1]
            /\ UNCHANGED <<data, capacity, size>>
       ELSE \E r \in {Extract(Heap)} :
                /\ Store(r)
                /\ last' = [op |-> "extract", arg |-> NULL, ret |-> r.ret, at |-> -1]
    /\ UNCHANGED <<myHeap, key, pending, aliased, lifetime>>

\* HeapPeek without the test for an empty heap.
HeapPeekNoEmptyCheck ==
    /\ last' = [op |-> "peek", arg |-> NULL,
                ret |-> IF myHeap = NULL THEN NULL ELSE data[0], at |-> -1]
    /\ UNCHANGED <<myHeap, data, capacity, size, key, pending, aliased, lifetime>>

\* HeapPeek reading the last live slot instead of index 0.
HeapPeekLast ==
    /\ last' = [op |-> "peek", arg |-> NULL,
                ret |-> IF myHeap = NULL \/ size = 0 THEN NULL ELSE data[size - 1],
                at |-> -1]
    /\ UNCHANGED <<myHeap, data, capacity, size, key, pending, aliased, lifetime>>

HeapPeek ==
    /\ last' = [op |-> "peek", arg |-> NULL,
                ret |-> IF myHeap = NULL \/ size = 0 THEN NULL ELSE data[0], at |-> -1]
    /\ UNCHANGED <<myHeap, data, capacity, size, key, pending, aliased, lifetime>>

\* HeapSize without the test of the instance.
HeapSizeNoNullCheck ==
    /\ last' = [op |-> "size", arg |-> NULL, ret |-> size, at |-> -1]
    /\ UNCHANGED <<myHeap, data, capacity, size, key, pending, aliased, lifetime>>

HeapSize ==
    /\ last' = [op |-> "size", arg |-> NULL,
                ret |-> IF myHeap = NULL THEN SizeError ELSE size, at |-> -1]
    /\ UNCHANGED <<myHeap, data, capacity, size, key, pending, aliased, lifetime>>

HeapUpdatePriority(d) ==
    /\ IF myHeap = NULL
       THEN /\ last' = [op |-> "update", arg |-> d, ret |-> false, at |-> -1]
            /\ UNCHANGED <<data, capacity, size, pending>>
       ELSE \E r \in {UpdatePriority(Heap, d)} :
                /\ Store(r)
                /\ last' = [op |-> "update", arg |-> d, ret |-> r.ret, at |-> r.at]
                /\ pending' = IF r.ret = true /\ d = pending THEN NULL ELSE pending
    /\ UNCHANGED <<myHeap, key, aliased, lifetime>>

\* The payloads in arr[0..n-1], in ascending index order.
LivePayloads(arr, n) == [i \in 1..n |-> arr[i - 1]]

\* HeapDestroy with its loop starting at index 1.
HeapDestroyFromOne ==
    /\ IF myHeap = NULL
       THEN /\ last' = [op |-> "destroy", arg |-> NULL, ret |-> false, at |-> -1]
            /\ UNCHANGED <<freed, released>>
       ELSE /\ freed' = IF freeFn # NULL
                        THEN freed \o [i \in 1..(size - 1) |-> data[i]] ELSE freed
            /\ released' = TRUE
            /\ last' = [op |-> "destroy", arg |-> NULL, ret |-> true, at |-> -1]
    /\ UNCHANGED <<myHeap, data, capacity, size, freeFn, key, pending, aliased>>

\* The caller's copy of the handle is not HeapDestroy's to change: it goes
\* on pointing at the released storage.
HeapDestroy ==
    /\ IF myHeap = NULL
       THEN /\ last' = [op |-> "destroy", arg |-> NULL, ret |-> false, at |-> -1]
            /\ UNCHANGED <<freed, released>>
       ELSE /\ freed' = IF freeFn # NULL
                        THEN freed \o LivePayloads(data, size) ELSE freed
            /\ released' = TRUE
            /\ last' = [op |-> "destroy", arg |-> NULL, ret |-> true, at |-> -1]
    /\ UNCHANGED <<myHeap, data, capacity, size, freeFn, key, pending, aliased>>

\* ------------------------------------------------------------ the caller
\* Live slots referring to payload d.
Slots(d) == {i \in 0..(size - 1) : data[i] = d}

\* The caller changes the priority of a payload the heap holds; the
\* container learns of it only through the HeapUpdatePriority that follows.
MutatePriority(d, k) ==
    /\ myHeap # NULL
    /\ Slots(d) # {}
    /\ k # key[d]
    /\ key' = [key EXCEPT ![d] = k]
    /\ pending' = d
    /\ aliased' = (aliased \/ Cardinality(Slots(d)) > 1)
    /\ last' = [op |-> "mutate", arg |-> d, ret |-> k, at |-> -1]
    /\ UNCHANGED <<myHeap, data, capacity, size, lifetime>>

\* No priority change is waiting to be reported.
Settled == pending = NULL

\* ---------------------------------------------------------- initial state
\* The caller's queue handle is NULL: there is no struct behind it.
NullQueue ==
    [data |-> <<>>, capacity |-> 0, size |-> 0, head |-> 0, tail |-> 0,
     freeFn |-> NULL]

\* The queue's caller before its first call.
NoQueueRun ==
    [last |-> [op |-> "none", arg |-> NULL, ret |-> 0],
     enqueued |-> <<>>, dequeued |-> <<>>, freed |-> <<>>]

\* The caller's stack handle is NULL: there is no struct behind it.
NullStack == [data |-> <<>>, capacity |-> 0, top |-> 0]

\* The stack's caller before its first call.
NoStackRun ==
    [last |-> [op |-> "none", arg |-> NULL, ret |-> 0],
     given |-> NULL, held |-> <<>>, pushes |-> 0, pops |-> 0, freed |-> <<>>]

\* No function is being run iteration by iteration.
NoSift ==
    [cmpFn |-> {}, fn |-> "idle", currentIndex |-> 0, caller |-> "none",
     targetIndex |-> -1]

\* The harness is idle in Spec and SpecAliased: harness.mode is "api".
NoHarness ==
    [mode |-> "api", script |-> <<>>, pc |-> 1,
     inserted |-> <<>>, extracted |-> <<>>, phased |-> TRUE,
     twin |-> [data |-> <<>>, capacity |-> 0, size |-> 0], twinRet |-> NULL]

Init ==
    /\ myHeap = NULL
    /\ data = <<>>
    /\ capacity = 0
    /\ size = 0
    /\ key \in KeyMaps
    /\ pending = NULL
    /\ aliased = FALSE
    /\ last = [op |-> "none", arg |-> NULL, ret |-> 0, at |-> -1]
    /\ harness = NoHarness
    /\ freeFn = NULL
    /\ released = FALSE
    /\ freed = <<>>
    /\ myQueue = NullQueue
    /\ queueRun = NoQueueRun
    /\ myStack = NullStack
    /\ stackRun = NoStackRun
    /\ sift = NoSift

\* ---------------------------------------------------------------- callers
\* Any caller that reports each priority change before its next call, keeps
\* at most MaxSize payloads in the heap and changes the priority only of
\* payloads it has in the heap once.
Api == harness.mode = "api"

CallCreate ==
    \E cap \in CapacityHints, cmpGiven, shellOk, arrayOk \in BOOLEAN :
        Api /\ HeapCreate(cap, cmpGiven, NULL, shellOk, arrayOk)
            /\ UNCHANGED <<harness, otherContainers>>

CallInsert ==
    \E d \in Refs, reallocOk \in BOOLEAN :
        /\ Api /\ Settled /\ size < MaxSize
        /\ HeapInsert(d, reallocOk) /\ UNCHANGED <<harness, otherContainers>>

CallExtract == Api /\ Settled /\ HeapExtract /\ UNCHANGED <<harness, otherContainers>>

CallPeek == Api /\ Settled /\ HeapPeek /\ UNCHANGED <<harness, otherContainers>>

CallSize == Api /\ Settled /\ HeapSize /\ UNCHANGED <<harness, otherContainers>>

CallUpdatePriority ==
    \E d \in Refs \cup {NULL} :
        /\ Api /\ (Settled \/ d = pending)
        /\ HeapUpdatePriority(d) /\ UNCHANGED <<harness, otherContainers>>

Mutate ==
    \E d \in Refs, k \in Keys :
        /\ Api /\ Settled /\ Cardinality(Slots(d)) = 1
        /\ MutatePriority(d, k) /\ UNCHANGED <<harness, otherContainers>>

Next ==
    \/ CallCreate
    \/ CallInsert
    \/ CallExtract
    \/ CallPeek
    \/ CallSize
    \/ CallUpdatePriority
    \/ Mutate

Spec == Init /\ [][Next]_vars

\* The same caller, who also changes the priority of payloads that it has
\* inserted more than once.
MutateAliased ==
    \E d \in Refs, k \in Keys :
        /\ Api /\ Settled /\ Cardinality(Slots(d)) > 1
        /\ MutatePriority(d, k) /\ UNCHANGED <<harness, otherContainers>>

NextAliased ==
    \/ CallCreate
    \/ CallInsert
    \/ CallExtract
    \/ CallUpdatePriority
    \/ Mutate
    \/ MutateAliased

SpecAliased == Init /\ [][NextAliased]_vars

\* ------------------------------------------------------------- lifetimes
\* A caller that creates heaps with or without a destructor, uses them,
\* destroys them and creates the next one.  HeapDestroy leaves the caller's
\* handle pointing at released storage; the caller either drops the handle
\* or goes on calling with it.  A call on released storage is undefined
\* behaviour: the build either finds the bytes as free() left them, and the
\* function runs on them as on a live heap, or traps (Fault).
LifeHints == {-1, 0, 1, 3}

Faulted == last.op = "fault"

\* The handle names released storage.
Dangling == myHeap # NULL /\ released

\* The caller goes on until a call traps, and makes at most one call with a
\* dangling handle, or a few HeapDestroy in a row (as long as the destructor
\* has not seen more than MaxSize payloads: see LifeDestroy), before it
\* drops the handle.
Going == Api /\ ~Faulted /\ (Dangling => last.op = "destroy")

LifeCreate ==
    \E cap \in LifeHints, free \in {NULL, FREE}, cmpGiven, shellOk, arrayOk \in BOOLEAN :
        /\ Going
        /\ HeapCreate(cap, cmpGiven, free, shellOk, arrayOk)
        /\ UNCHANGED <<harness, otherContainers>>

LifeInsert ==
    \E d \in Refs, reallocOk \in BOOLEAN :
        /\ Going /\ size < MaxSize
        /\ HeapInsert(d, reallocOk)
        /\ UNCHANGED <<harness, otherContainers>>

LifeExtract == Going /\ HeapExtract /\ UNCHANGED <<harness, otherContainers>>

LifePeek == Going /\ HeapPeek /\ UNCHANGED <<harness, otherContainers>>

LifeSize == Going /\ HeapSize /\ UNCHANGED <<harness, otherContainers>>

LifeUpdatePriority ==
    \E d \in Refs \cup {NULL} :
        Going /\ HeapUpdatePriority(d) /\ UNCHANGED <<harness, otherContainers>>

LifeDestroy ==
    /\ Going /\ Len(freed) <= MaxSize
    /\ HeapDestroy
    /\ UNCHANGED <<harness, otherContainers>>

\* The caller forgets a handle whose instance it has destroyed: no instance
\* is left, as before the first HeapCreate.
DropHandle ==
    /\ Api /\ ~Faulted /\ Dangling
    /\ myHeap' = NULL
    /\ data' = <<>> /\ capacity' = 0 /\ size' = 0
    /\ freeFn' = NULL /\ released' = FALSE /\ freed' = <<>>
    /\ last' = [op |-> "drop", arg |-> NULL, ret |-> 0, at |-> -1]
    /\ UNCHANGED <<key, pending, aliased, harness, otherContainers>>

\* A call with a dangling handle traps.
Fault ==
    /\ Going /\ Dangling
    /\ last' = [op |-> "fault", arg |-> NULL, ret |-> 0, at |-> -1]
    /\ UNCHANGED <<myHeap, data, capacity, size, key, pending, aliased, lifetime,
                   harness, otherContainers>>

NextLife ==
    \/ LifeCreate
    \/ LifeInsert
    \/ LifeExtract
    \/ LifePeek
    \/ LifeSize
    \/ LifeUpdatePriority
    \/ LifeDestroy
    \/ DropHandle
    \/ Fault

\* Lifetimes do not depend on the oracle: they are explored under one
\* assignment of priorities, distinct as far as Keys allows.
InitLife == Init /\ key = [r \in Refs |-> IF r <= MaxKey THEN r ELSE MaxKey]

SpecLife == InitLife /\ [][NextLife]_vars

\* ------------------------------------------------------ the NULL payload
\* HeapInsert does not look at the payload it is given, so a caller can
\* insert NULL.  What the oracle does when handed NULL is the caller's
\* code; this caller inserts NULL into an empty heap only and, as long as
\* the heap holds it, inserts and reports nothing, so the oracle never
\* sees NULL.
NoNullHeld == \A i \in 0..(size - 1) : data[i] # NULL

InsertNull ==
    \E reallocOk \in BOOLEAN :
        /\ Api /\ Settled /\ size = 0
        /\ HeapInsert(NULL, reallocOk) /\ UNCHANGED <<harness, otherContainers>>

InsertRef == NoNullHeld /\ CallInsert

UpdateRef == NoNullHeld /\ CallUpdatePriority

NextNull ==
    \/ CallCreate
    \/ InsertNull
    \/ InsertRef
    \/ CallExtract
    \/ CallPeek
    \/ CallSize
    \/ UpdateRef
    \/ Mutate

SpecNull == InitLife /\ [][NextNull]_vars

\* ================================================================== queue
\* The ring buffer of src/src/queue.c.  myQueue is the struct the caller's
\* handle points at, [data, capacity, size, head, tail, freeFn], or
\* NullQueue when the handle is NULL.
QueueHints == {0, 2, 3}

heapWorld == <<myHeap, data, capacity, size, key, pending, aliased, last,
               harness, freeFn, released, freed, sift>>

stackWorld == <<myStack, stackRun>>

queueWorld == <<myQueue, queueRun>>

QueueIsFull(q) == q.size = q.capacity

QueueIsEmpty(q) == q.size = 0

\* UpdateTail without the modulo.
UpdateTailNoWrap(q) == [q EXCEPT !.tail = q.tail + 1]

UpdateTail(q) == [q EXCEPT !.tail = (q.tail + 1) % q.capacity]

UpdateHead(q) == [q EXCEPT !.head = (q.head + 1) % q.capacity]

\* QueueCreate's struct on success.
QueueCreated(cap, free) ==
    LET c == IF cap > 0 THEN cap ELSE QueueDefaultCapacity
    IN  [data |-> [i \in 0..(c - 1) |-> Uninit], capacity |-> c,
         size |-> 0, head |-> 0, tail |-> 0, freeFn |-> free]

\* Enqueue without the test for a full queue.
EnqueueNoFullCheck(q, d) ==
    LET written == [q EXCEPT !.data[q.tail] = d]
        advanced == UpdateTail(written)
    IN  [q |-> [advanced EXCEPT !.size = q.size + 1], ret |-> true]

\* The body of QueueEnqueue past the check of the instance: the struct it
\* leaves and what it returns.
Enqueue(q, d) ==
    IF QueueIsFull(q)
    THEN [q |-> q, ret |-> false]
    ELSE LET written == [q EXCEPT !.data[q.tail] = d]
             advanced == UpdateTail(written)
         IN  [q |-> [advanced EXCEPT !.size = q.size + 1], ret |-> true]

\* Dequeue reading the slot at head after head has advanced.
DequeueAfterAdvance(q) ==
    IF QueueIsEmpty(q)
    THEN [q |-> q, ret |-> NULL]
    ELSE LET advanced == UpdateHead(q)
         IN  [q |-> [advanced EXCEPT !.size = q.size - 1],
              ret |-> q.data[advanced.head]]

Dequeue(q) ==
    IF QueueIsEmpty(q)
    THEN [q |-> q, ret |-> NULL]
    ELSE LET tempHead == q.head
             advanced == UpdateHead(q)
         IN  [q |-> [advanced EXCEPT !.size = q.size - 1],
              ret |-> q.data[tempHead]]

\* Drain emptying the array by index, 0 to size-1, as HeapDestroy does.
DrainByIndex(q, calls) ==
    [q |-> [q EXCEPT !.size = 0],
     calls |-> calls \o [i \in 1..q.size |-> q.data[i - 1]]]

\* QueueDestroy's loop: dequeue and pass to the destructor until empty.
\* calls: the destructor's calls so far.
RECURSIVE Drain(_, _)
Drain(q, calls) ==
    IF QueueIsEmpty(q) THEN [q |-> q, calls |-> calls]
    ELSE LET r == Dequeue(q)
         IN  Drain(r.q, Append(calls, r.ret))

\* The queue's caller: its last call and what it has seen.
QueueLast(op, arg, ret) == [op |-> op, arg |-> arg, ret |-> ret]

Ran(op, arg, ret) == [queueRun EXCEPT !.last = QueueLast(op, arg, ret)]

\* The instance myQueue named has been destroyed (the handle dangles).
QueueReleased == queueRun.last.op = "destroy" /\ queueRun.last.ret = true

QueueCreate(cap, free, shellOk, arrayOk) ==
    /\ myQueue = NullQueue
    /\ IF shellOk /\ arrayOk
       THEN /\ myQueue' = QueueCreated(cap, free)
            /\ queueRun' = [last |-> QueueLast("create", cap, true),
                            enqueued |-> <<>>, dequeued |-> <<>>, freed |-> <<>>]
       ELSE /\ myQueue' = NullQueue
            /\ queueRun' = Ran("create", cap, false)

QueueEnqueue(d) ==
    IF myQueue = NullQueue
    THEN /\ queueRun' = Ran("enqueue", d, false)
         /\ UNCHANGED myQueue
    ELSE \E r \in {Enqueue(myQueue, d)} :
            /\ myQueue' = r.q
            /\ queueRun' = [queueRun EXCEPT
                                !.last = QueueLast("enqueue", d, r.ret),
                                !.enqueued = IF r.ret = true THEN Append(@, d) ELSE @]

QueueDequeue ==
    IF myQueue = NullQueue
    THEN /\ queueRun' = Ran("dequeue", NULL, NULL)
         /\ UNCHANGED myQueue
    ELSE \E r \in {Dequeue(myQueue)} :
            /\ myQueue' = r.q
            /\ queueRun' = [queueRun EXCEPT
                                !.last = QueueLast("dequeue", NULL, r.ret),
                                !.dequeued = IF QueueIsEmpty(myQueue)
                                             THEN @ ELSE Append(@, r.ret)]

QueuePeek ==
    /\ queueRun' = Ran("peek", NULL,
                       IF myQueue = NullQueue \/ QueueIsEmpty(myQueue)
                       THEN NULL ELSE myQueue.data[myQueue.head])
    /\ UNCHANGED myQueue

QueueSize ==
    /\ queueRun' = Ran("size", NULL,
                       IF myQueue = NullQueue THEN QueueSizeError ELSE myQueue.size)
    /\ UNCHANGED myQueue

\* free() leaves the caller's handle pointing at the released struct.
QueueDestroy ==
    IF myQueue = NullQueue
    THEN /\ queueRun' = Ran("destroy", NULL, false)
         /\ UNCHANGED myQueue
    ELSE \E r \in {IF myQueue.freeFn # NULL
                    THEN Drain(myQueue, queueRun.freed)
                    ELSE [q |-> myQueue, calls |-> queueRun.freed]} :
            /\ myQueue' = r.q
            /\ queueRun' = [queueRun EXCEPT
                                !.last = QueueLast("destroy", NULL, true),
                                !.freed = r.calls]

\* The caller forgets the handle of the queue it has destroyed.
QueueDrop ==
    /\ myQueue # NullQueue /\ QueueReleased
    /\ myQueue' = NullQueue
    /\ queueRun' = NoQueueRun

\* A caller that makes at most MaxEnqueues successful enqueues on a queue
\* and makes no call with the handle of a queue it has destroyed.
QueueCallCreate ==
    \E cap \in QueueHints, free \in {NULL, FREE}, shellOk, arrayOk \in BOOLEAN :
        QueueCreate(cap, free, shellOk, arrayOk) /\ UNCHANGED <<heapWorld, stackWorld>>

QueueCallEnqueue ==
    \E d \in Refs :
        /\ ~QueueReleased /\ Len(queueRun.enqueued) < MaxEnqueues
        /\ QueueEnqueue(d) /\ UNCHANGED <<heapWorld, stackWorld>>

QueueCallDequeue == ~QueueReleased /\ QueueDequeue /\ UNCHANGED <<heapWorld, stackWorld>>

QueueCallPeek == ~QueueReleased /\ QueuePeek /\ UNCHANGED <<heapWorld, stackWorld>>

QueueCallSize == ~QueueReleased /\ QueueSize /\ UNCHANGED <<heapWorld, stackWorld>>

QueueCallDestroy == ~QueueReleased /\ QueueDestroy /\ UNCHANGED <<heapWorld, stackWorld>>

QueueCallDrop == QueueDrop /\ UNCHANGED <<heapWorld, stackWorld>>

NextQueue ==
    \/ QueueCallCreate
    \/ QueueCallEnqueue
    \/ QueueCallDequeue
    \/ QueueCallPeek
    \/ QueueCallSize
    \/ QueueCallDestroy
    \/ QueueCallDrop

\* The heap stays as it starts; its priorities play no part.
InitQueue == InitLife

SpecQueue == InitQueue /\ [][NextQueue]_vars

\* ================================================================== stack
\* The dynamic array of src/src/stack.c.  myStack is the struct the caller's
\* handle points at, [data, capacity, top], or NullStack when the handle is
\* NULL.  The struct has no field for a destructor, and stack.c defines no
\* StackDestroy.
StackHints == {0, 1, 2}

\* StackCreate's struct on success.
StackCreated(cap) ==
    LET c == IF cap > 0 THEN cap ELSE StackDefaultCapacity
    IN  [data |-> [i \in 0..(c - 1) |-> Uninit], capacity |-> c, top |-> 0]

\* Push writing the new payload below top on the growth path.
PushGrowOverwrites(s, d, reallocOk) ==
    IF s.capacity = s.top /\ ~reallocOk
    THEN [s |-> s, ret |-> false]
    ELSE IF s.capacity = s.top
    THEN LET tempData == Realloc(s.data, s.capacity, s.capacity * 2)
         IN  [s |-> [data |-> [tempData EXCEPT ![s.top - 1] = d],
                     capacity |-> s.capacity * 2, top |-> s.top],
              ret |-> true]
    ELSE [s |-> [data |-> [s.data EXCEPT ![s.top] = d],
                 capacity |-> s.capacity, top |-> s.top + 1],
          ret |-> true]

\* The body of StackPush past the check of the instance: the struct it
\* leaves and what it returns.  reallocOk: whether realloc succeeds should
\* it be called.
Push(s, d, reallocOk) ==
    IF s.capacity = s.top /\ ~reallocOk
    THEN [s |-> s, ret |-> false]
    ELSE LET newCapacity == IF s.capacity = s.top THEN s.capacity * 2 ELSE s.capacity
             tempData == IF s.capacity = s.top
                         THEN Realloc(s.data, s.capacity, newCapacity) ELSE s.data
         IN  [s |-> [data |-> [tempData EXCEPT ![s.top] = d],
                     capacity |-> newCapacity, top |-> s.top + 1],
              ret |-> true]

\* Pop with a post-decrement: it reads the slot at top, then lowers top.
PopPostDecrement(s) ==
    IF s.top = 0
    THEN [s |-> s, ret |-> NULL]
    ELSE [s |-> [s EXCEPT !.top = s.top - 1],
          ret |-> IF s.top < s.capacity THEN s.data[s.top] ELSE Uninit]

Pop(s) ==
    IF s.top = 0
    THEN [s |-> s, ret |-> NULL]
    ELSE [s |-> [s EXCEPT !.top = s.top - 1], ret |-> s.data[s.top - 1]]

StackLast(op, arg, ret) == [op |-> op, arg |-> arg, ret |-> ret]

StackRan(op, arg, ret) == [stackRun EXCEPT !.last = StackLast(op, arg, ret)]

\* free: the destructor a caller going by stack.h passes as second argument.
\* The StackCreate of stack.c has the one parameter initialCapacity: nothing
\* of free reaches the struct.
StackCreate(cap, free, shellOk, arrayOk) ==
    /\ myStack = NullStack
    /\ IF shellOk /\ arrayOk
       THEN /\ myStack' = StackCreated(cap)
            /\ stackRun' = [last |-> StackLast("create", cap, true),
                            given |-> free, held |-> <<>>,
                            pushes |-> 0, pops |-> 0, freed |-> <<>>]
       ELSE /\ myStack' = NullStack
            /\ stackRun' = StackRan("create", cap, false)

StackPush(d, reallocOk) ==
    IF myStack = NullStack
    THEN /\ stackRun' = StackRan("push", d, false)
         /\ UNCHANGED myStack
    ELSE \E r \in {Push(myStack, d, reallocOk)} :
            /\ myStack' = r.s
            /\ stackRun' = [stackRun EXCEPT
                                !.last = StackLast("push", d, r.ret),
                                !.held = IF r.ret = true THEN Append(@, d) ELSE @,
                                !.pushes = IF r.ret = true THEN @ + 1 ELSE @]

StackPop ==
    IF myStack = NullStack
    THEN /\ stackRun' = StackRan("pop", NULL, NULL)
         /\ UNCHANGED myStack
    ELSE \E r \in {Pop(myStack)} :
            /\ myStack' = r.s
            /\ stackRun' = [stackRun EXCEPT
                                !.last = StackLast("pop", NULL, r.ret),
                                !.held = IF @ = <<>> THEN @
                                         ELSE SubSeq(@, 1, Len(@) - 1),
                                !.pops = IF myStack.top = 0 THEN @ ELSE @ + 1]

StackPeek ==
    /\ stackRun' = StackRan("peek", NULL,
                            IF myStack = NullStack \/ myStack.top = 0
                            THEN NULL ELSE myStack.data[myStack.top - 1])
    /\ UNCHANGED myStack

StackSize ==
    /\ stackRun' = StackRan("size", NULL,
                            IF myStack = NullStack THEN StackSizeError
                            ELSE myStack.top)
    /\ UNCHANGED myStack

\* stack.h declares StackDestroy; stack.c defines none, so a stack's life
\* ends when its caller lets go of the handle.  No function of stack.c
\* runs: the payloads left in the stack reach no destructor, and the caller
\* starts over with no stack.
StackAbandon ==
    /\ myStack # NullStack
    /\ myStack' = NullStack
    /\ stackRun' = [NoStackRun EXCEPT !.last = StackLast("abandon", NULL, 0)]

\* A caller that makes at most MaxPushes successful pushes on a stack.
StackCallCreate ==
    \E cap \in StackHints, free \in {NULL, FREE}, shellOk, arrayOk \in BOOLEAN :
        StackCreate(cap, free, shellOk, arrayOk) /\ UNCHANGED <<heapWorld, queueWorld>>

StackCallPush ==
    \E d \in Refs, reallocOk \in BOOLEAN :
        /\ stackRun.pushes < MaxPushes
        /\ StackPush(d, reallocOk) /\ UNCHANGED <<heapWorld, queueWorld>>

StackCallPop == StackPop /\ UNCHANGED <<heapWorld, queueWorld>>

StackCallPeek == StackPeek /\ UNCHANGED <<heapWorld, queueWorld>>

StackCallSize == StackSize /\ UNCHANGED <<heapWorld, queueWorld>>

StackCallAbandon == StackAbandon /\ UNCHANGED <<heapWorld, queueWorld>>

NextStack ==
    \/ StackCallCreate
    \/ StackCallPush
    \/ StackCallPop
    \/ StackCallPeek
    \/ StackCallSize
    \/ StackCallAbandon

\* The heap and the queue stay as they start.
InitStack == InitLife

SpecStack == InitStack /\ [][NextStack]_vars

\* ============================================================= iterations
\* HeapInsert, HeapExtract and HeapUpdatePriority taken one loop iteration
\* of HeapifyUp and HeapifyDown at a time, on a heap created with any
\* oracle: sift.cmpFn is the set of pairs <<a, b>> for which the oracle
\* returns a value > 0, the only thing the code asks of it.  The relation
\* need not be an order.  The oracles tried: two total orders, the one that
\* never and the one that always says "outranks", a non-strict order (equal
\* payloads outrank each other), one that ranks a payload above itself
\* only, a cycle (not transitive) and "differs" (not antisymmetric).
Pairs == Refs \X Refs

Oracles ==
    { {},
      Pairs,
      {p \in Pairs : p[1] > p[2]},
      {p \in Pairs : p[1] < p[2]},
      {p \in Pairs : p[1] >= p[2]},
      {p \in Pairs : p[1] = p[2]},
      {p \in Pairs : p[2] = (p[1] % NumRefs) + 1},
      {p \in Pairs : p[1] # p[2]} }

\* One pass of HeapifyUp's while loop with oracle cmp: the array and
\* currentIndex it leaves, and whether the loop goes round again.  This one
\* forgets currentIndex = parentIndex after the swap.
UpIterationStays(cmp, arr, currentIndex) ==
    IF currentIndex > 0
    THEN LET parentIndex == GetParent(currentIndex)
         IN  IF <<arr[currentIndex], arr[parentIndex]>> \in cmp
             THEN [data |-> Swap(arr, currentIndex, parentIndex),
                   currentIndex |-> currentIndex, more |-> TRUE]
             ELSE [data |-> arr, currentIndex |-> currentIndex, more |-> FALSE]
    ELSE [data |-> arr, currentIndex |-> currentIndex, more |-> FALSE]

\* One pass of HeapifyUp's while loop with oracle cmp: the array and
\* currentIndex it leaves, and whether the loop goes round again.
UpIteration(cmp, arr, currentIndex) ==
    IF currentIndex > 0
    THEN LET parentIndex == GetParent(currentIndex)
         IN  IF <<arr[currentIndex], arr[parentIndex]>> \in cmp
             THEN [data |-> Swap(arr, currentIndex, parentIndex),
                   currentIndex |-> parentIndex, more |-> TRUE]
             ELSE [data |-> arr, currentIndex |-> currentIndex, more |-> FALSE]
    ELSE [data |-> arr, currentIndex |-> currentIndex, more |-> FALSE]

\* One pass of HeapifyDown's while (true) loop with oracle cmp.
DownIteration(cmp, arr, n, currentIndex) ==
    LET leftChild  == GetLeftChild(currentIndex)
        rightChild == GetRightChild(currentIndex)
        afterLeft  == IF leftChild < n /\ <<arr[leftChild], arr[currentIndex]>> \in cmp
                      THEN leftChild ELSE currentIndex
        extremeIndex == IF rightChild < n /\ <<arr[rightChild], arr[afterLeft]>> \in cmp
                        THEN rightChild ELSE afterLeft
    IN  IF extremeIndex = currentIndex
        THEN [data |-> arr, currentIndex |-> currentIndex, more |-> FALSE]
        ELSE [data |-> Swap(arr, currentIndex, extremeIndex),
              currentIndex |-> extremeIndex, more |-> TRUE]

Idle == sift.fn = "idle"

\* What the iteration-wise run leaves alone.
siftRest == <<myHeap, key, pending, aliased, harness, lifetime,
              queueWorld, stackWorld>>

\* The function returns to the caller.
Return == [sift EXCEPT !.fn = "idle", !.caller = "none", !.targetIndex = -1]

\* The function calls HeapifyUp or HeapifyDown with the given index.
Enter(fn, index, caller, targetIndex) ==
    [sift EXCEPT !.fn = fn, !.currentIndex = index, !.caller = caller,
                 !.targetIndex = targetIndex]

\* HeapInsert up to its call of HeapifyUp.  last holds what the call will
\* return: the loops do not change it.
BeginInsert(d, reallocOk) ==
    /\ IF HeapIsFull(size, capacity) /\ ~reallocOk
       THEN /\ last' = [op |-> "insert", arg |-> d, ret |-> false, at |-> -1]
            /\ UNCHANGED <<data, capacity, size, sift>>
       ELSE LET newCapacity == IF HeapIsFull(size, capacity)
                               THEN capacity * 2 ELSE capacity
                tempData == IF HeapIsFull(size, capacity)
                            THEN Realloc(data, capacity, newCapacity) ELSE data
                insertIndex == size
            IN  /\ data' = [tempData EXCEPT ![insertIndex] = d]
                /\ capacity' = newCapacity
                /\ size' = size + 1
                /\ sift' = Enter("HeapifyUp", insertIndex, "insert", -1)
                /\ last' = [op |-> "insert", arg |-> d, ret |-> true, at |-> -1]
    /\ UNCHANGED siftRest

\* HeapExtract up to its call of HeapifyDown.
BeginExtract ==
    /\ IF size = 0
       THEN /\ last' = [op |-> "extract", arg |-> NULL, ret |-> NULL, at |-> -1]
            /\ UNCHANGED <<data, size, sift>>
       ELSE /\ data' = [data EXCEPT ![0] = data[size - 1]]
            /\ size' = size - 1
            /\ sift' = IF size - 1 > 0
                       THEN Enter("HeapifyDown", 0, "extract", -1) ELSE sift
            /\ last' = [op |-> "extract", arg |-> NULL, ret |-> data[0], at |-> -1]
    /\ UNCHANGED <<capacity, siftRest>>

\* HeapUpdatePriority up to its call of HeapifyUp.
BeginUpdatePriority(d) ==
    /\ LET targetIndex == IF d = NULL \/ size = 0 THEN -1
                          ELSE TargetIndex(data, size, d)
       IN  IF targetIndex = -1
           THEN /\ last' = [op |-> "update", arg |-> d, ret |-> false, at |-> -1]
                /\ UNCHANGED sift
           ELSE /\ last' = [op |-> "update", arg |-> d, ret |-> true,
                            at |-> targetIndex]
                /\ sift' = Enter("HeapifyUp", targetIndex, "update", targetIndex)
    /\ UNCHANGED <<data, capacity, size, siftRest>>

\* One pass of HeapifyUp's loop.  When the loop ends HeapInsert returns and
\* HeapUpdatePriority goes on to HeapifyDown from the index it located.
UpStep ==
    /\ sift.fn = "HeapifyUp"
    /\ \E r \in {UpIteration(sift.cmpFn, data, sift.currentIndex)} :
          /\ data' = r.data
          /\ sift' = IF r.more THEN [sift EXCEPT !.currentIndex = r.currentIndex]
                     ELSE IF sift.caller = "update"
                     THEN Enter("HeapifyDown", sift.targetIndex, "update",
                                sift.targetIndex)
                     ELSE Return
    /\ UNCHANGED <<capacity, size, last, siftRest>>

\* One pass of HeapifyDown's loop.
DownStep ==
    /\ sift.fn = "HeapifyDown"
    /\ \E r \in {DownIteration(sift.cmpFn, data, size, sift.currentIndex)} :
          /\ data' = r.data
          /\ sift' = IF r.more THEN [sift EXCEPT !.currentIndex = r.currentIndex]
                     ELSE Return
    /\ UNCHANGED <<capacity, size, last, siftRest>>

\* The caller calls when the call before has returned, and keeps at most
\* MaxSize payloads in the heap.
SiftInsert ==
    \E d \in Refs, reallocOk \in BOOLEAN :
        Idle /\ size < MaxSize /\ BeginInsert(d, reallocOk)

SiftExtract == Idle /\ BeginExtract

SiftUpdatePriority ==
    \E d \in Refs \cup {NULL} : Idle /\ BeginUpdatePriority(d)

NextSift ==
    \/ SiftInsert
    \/ SiftExtract
    \/ SiftUpdatePriority
    \/ UpStep
    \/ DownStep

\* A heap of capacity 1 just created with some oracle.
InitSift ==
    /\ myHeap = HEAP
    /\ data = Created(1).data
    /\ capacity = Created(1).capacity
    /\ size = 0
    /\ key = [r \in Refs |-> IF r <= MaxKey THEN r ELSE MaxKey]
    /\ pending = NULL
    /\ aliased = FALSE
    /\ last = [op |-> "create", ret |-> HEAP, at |-> -1,
               arg |-> CreateArgs(1, TRUE, NULL, TRUE, TRUE)]
    /\ harness = NoHarness
    /\ freeFn = NULL
    /\ released = FALSE
    /\ freed = <<>>
    /\ myQueue = NullQueue
    /\ queueRun = NoQueueRun
    /\ myStack = NullStack
    /\ stackRun = NoStackRun
    /\ \E cmp \in Oracles : sift = [NoSift EXCEPT !.cmpFn = cmp]

\* The functions are synchronous C: a loop that can go round does.
SpecSift ==
    InitSift /\ [][NextSift]_vars /\ WF_vars(UpStep) /\ WF_vars(DownStep)

\* ------------------------------------------------------------ the harness
\* The runs of section 8 of the specification.  A run starts on a heap just
\* created and records the payloads it inserted and extracted; a second heap
\* (the twin), created with BigCapacity slots so that it never grows, is
\* given the same calls.  A run either follows a script (scenarios A, B, C)
\* or is free: at most MaxSize inserts in all, any order of calls, realloc
\* never failing.
Step(op, d, k) == [op |-> op, d |-> d, k |-> k]

Times(n, step) == [i \in 1..n |-> step]

\* Scenario A: keys 5, 2, 9, 1 into a heap of default capacity, then drained.
KeysA == <<5, 2, 9, 1>>

ScriptA ==
    [i \in 1..4 |-> Step("insert", i, 0)] \o Times(4, Step("extract", 0, 0))

\* Scenario B: GrowthInserts payloads of distinct keys into a heap of
\* capacity 1, its size read, then drained.
KeysB == [i \in 1..GrowthInserts |-> ((i * 5) % GrowthInserts) + 1]

ScriptB ==
    [i \in 1..GrowthInserts |-> Step("insert", i, 0)]
    \o <<Step("size", 0, 0)>>
    \o Times(GrowthInserts, Step("extract", 0, 0))

\* Scenario C: keys 1..5, the payload of key 2 changed to key 10 and
\* reported, then drained.
KeysC == <<1, 2, 3, 4, 5>>

ScriptC ==
    [i \in 1..5 |-> Step("insert", i, 0)]
    \o <<Step("mutate", 2, 10), Step("update", 2, 0)>>
    \o Times(5, Step("extract", 0, 0))

ScenarioA == [key |-> KeysA, hint |-> 0, script |-> ScriptA]

ScenarioB == [key |-> KeysB, hint |-> 1, script |-> ScriptB]

ScenarioC == [key |-> KeysC, hint |-> 0, script |-> ScriptC]

FreeRuns == {[key |-> k, hint |-> 1, script |-> <<>>] : k \in KeyMaps}

\* The state HeapCreate(u.hint) leaves, at the start of run u.
InitOf(u) ==
    /\ myHeap = HEAP
    /\ data = Created(u.hint).data
    /\ capacity = Created(u.hint).capacity
    /\ size = 0
    /\ key = u.key
    /\ pending = NULL
    /\ aliased = FALSE
    /\ last = [op |-> "create", ret |-> HEAP, at |-> -1,
               arg |-> CreateArgs(u.hint, TRUE, NULL, TRUE, TRUE)]
    /\ harness = [mode |-> "run", script |-> u.script, pc |-> 1,
                  inserted |-> <<>>, extracted |-> <<>>, phased |-> TRUE,
                  twin |-> Created(BigCapacity), twinRet |-> NULL]
    /\ freeFn = NULL
    /\ released = FALSE
    /\ freed = <<>>
    /\ myQueue = NullQueue
    /\ queueRun = NoQueueRun
    /\ myStack = NullStack
    /\ stackRun = NoStackRun
    /\ sift = NoSift

InitRun == \E u \in FreeRuns \cup {ScenarioA, ScenarioB, ScenarioC} : InitOf(u)

Running == harness.mode = "run"

Free == harness.script = <<>>

\* The call the run may make next.
Allowed(step) ==
    \/ Free
    \/ /\ harness.pc <= Len(harness.script)
       /\ harness.script[harness.pc] = step

NextPc == IF Free THEN harness.pc ELSE harness.pc + 1

Strip(r) == [data |-> r.data, capacity |-> r.capacity, size |-> r.size]

RunInsert ==
    \E d \in DOMAIN key :
        /\ Running /\ UNCHANGED otherContainers /\ Allowed(Step("insert", d, 0))
        /\ Free => Len(harness.inserted) < MaxSize
        /\ HeapInsert(d, TRUE)
        /\ \E t \in {Insert(harness.twin, d, TRUE)} :
              harness' = [harness EXCEPT
                             !.pc = NextPc,
                             !.inserted = Append(@, d),
                             !.phased = @ /\ harness.extracted = <<>>,
                             !.twin = Strip(t),
                             !.twinRet = t.ret]

RunExtract ==
    /\ Running /\ UNCHANGED otherContainers /\ Allowed(Step("extract", 0, 0))
    /\ HeapExtract
    /\ \E t \in {Extract(harness.twin)} :
          harness' = [harness EXCEPT
                         !.pc = NextPc,
                         !.extracted = IF last'.ret # NULL
                                       THEN Append(@, last'.ret) ELSE @,
                         !.twin = Strip(t),
                         !.twinRet = t.ret]

RunSize ==
    /\ Running /\ UNCHANGED otherContainers /\ Allowed(Step("size", 0, 0))
    /\ HeapSize
    /\ harness' = [harness EXCEPT !.pc = NextPc]

RunPeek ==
    /\ Running /\ Free
    /\ HeapPeek
    /\ UNCHANGED <<harness, otherContainers>>

RunMutate ==
    /\ Running /\ UNCHANGED otherContainers /\ ~Free /\ harness.pc <= Len(harness.script)
    /\ harness.script[harness.pc].op = "mutate"
    /\ MutatePriority(harness.script[harness.pc].d, harness.script[harness.pc].k)
    /\ harness' = [harness EXCEPT !.pc = NextPc]

RunUpdatePriority ==
    \E d \in DOMAIN key \cup {NULL} :
        /\ Running /\ UNCHANGED otherContainers /\ Allowed(Step("update", d, 0))
        /\ HeapUpdatePriority(d)
        /\ \E t \in {UpdatePriority(harness.twin, d)} :
              harness' = [harness EXCEPT
                             !.pc = NextPc,
                             !.twin = Strip(t),
                             !.twinRet = t.ret]

NextRun ==
    \/ RunInsert
    \/ RunExtract
    \/ RunSize
    \/ RunPeek
    \/ RunMutate
    \/ RunUpdatePriority

SpecRun == InitRun /\ [][NextRun]_vars

\* The callers of Spec, and scenario C.
InitUpdate == Init \/ InitOf(ScenarioC)

NextUpdate ==
    \/ Next
    \/ RunInsert
    \/ RunExtract
    \/ RunMutate
    \/ RunUpdatePriority

SpecUpdate == InitUpdate /\ [][NextUpdate]_vars

\* ================================================================ claims
\* The order invariant of arr[0..n-1] with the priorities read from k.
HeapOrderUnder(k, arr, n) ==
    \A i \in 1..(n - 1) : CmpUnder(k, arr[i], arr[GetParent(i)]) <= 0

HeapOrder == HeapOrderUnder(key, data, size)

Live == myHeap # NULL

\* The iterations of HeapifyDown(arr, n, index) in which a swap happens:
\* the array at the iteration, the current index and the index it swaps with.
RECURSIVE DownSteps(_, _, _)
DownSteps(arr, n, index) ==
    LET extremeIndex == ExtremeIndex(arr, n, index)
    IN  IF extremeIndex = index THEN {}
        ELSE {[arr |-> arr, cur |-> index, ext |-> extremeIndex]}
             \cup DownSteps(Swap(arr, index, extremeIndex), n, extremeIndex)

\* The swapping iterations of the sift-down the step being taken runs.
StepDownSteps ==
    IF last'.op = "extract" /\ Live /\ size > 1
    THEN DownSteps([data EXCEPT ![0] = data[size - 1]], size - 1, 0)
    ELSE IF last'.op = "update" /\ last'.ret = true
    THEN DownSteps(HeapifyUp(data, last'.at), size, last'.at)
    ELSE {}

\* The sibling of child c of node p.
OtherChild(p, c) ==
    IF c = GetLeftChild(p) THEN GetRightChild(p) ELSE GetLeftChild(p)

\* The priorities of the payloads the run has extracted, in order.
ExtractedKeys == [i \in 1..Len(harness.extracted) |-> key[harness.extracted[i]]]

\* ---- C1
\* C1: in every state of a live heap in which no priority change is waiting
\* to be reported (and none ever hit a payload held in several slots), no
\* element outranks its parent: for all 0 < i < size the oracle applied to
\* (data[i], data[(i-1)/2]) is not positive.
C1_HeapOrder == (Live /\ Settled /\ ~aliased) => HeapOrder

C1_Witness ==
    /\ Live /\ Settled /\ ~aliased
    /\ last.op = "extract" /\ last.ret # NULL
    /\ size = 3
    /\ key[data[0]] > key[data[2]]

\* ---- C2
\* C2: in a run that made all its inserts before its first extraction, no
\* extracted payload is strictly outranked by a payload extracted after it;
\* and the run that inserts keys 5,2,9,1 and drains the heap extracts 9,5,2,1.
C2_ExtractionOrder ==
    /\ harness.phased
       => \A i, j \in 1..Len(harness.extracted) :
              i < j => CmpFn(harness.extracted[j], harness.extracted[i]) <= 0
    /\ (harness.script = ScriptA /\ Len(harness.extracted) = 4)
       => ExtractedKeys = <<9, 5, 2, 1>>

\* Scenario A has run to its end.
C2_Witness ==
    /\ harness.script = ScriptA
    /\ harness.pc = Len(ScriptA) + 1
    /\ Len(harness.extracted) = 4 /\ size = 0
    /\ last.op = "extract" /\ key[last.ret] = 1

\* ---- C3
\* C3: when the heap would satisfy the order invariant under some former
\* priority of a payload held in exactly one live slot, a successful
\* HeapUpdatePriority on that payload leaves the order invariant holding at
\* every index; and the run that inserts keys 1,2,3,4,5, changes key 2 to 10,
\* reports it and drains the heap extracts 10,5,4,3,1.
C3_UpdateRestores ==
    /\ [][ ( /\ last'.op = "update" /\ last'.ret = true
             /\ Cardinality(Slots(last'.arg)) = 1
             /\ \E k0 \in 1..10 :
                   HeapOrderUnder([key EXCEPT ![last'.arg] = k0], data, size) )
           => HeapOrderUnder(key', data', size') ]_vars
    /\ []( (harness.script = ScriptC /\ Len(harness.extracted) = 5)
           => ExtractedKeys = <<10, 5, 4, 3, 1>> )

\* A payload found at index 3 has been raised to the root by the call.
C3_Witness ==
    /\ last.op = "update" /\ last.ret = true /\ ~aliased
    /\ last.at = 3 /\ data[0] = last.arg
    /\ Cardinality(Slots(last.arg)) = 1
    /\ HeapOrder

\* ---- C4
\* C4 as stated: whenever size > 0, HeapExtract returns the payload that was
\* at index 0 and no live payload strictly outranks it.
C4_TopIsMaxAlways ==
    [][ (last'.op = "extract" /\ Live /\ Settled /\ size > 0)
        => /\ last'.ret = data[0]
           /\ \A i \in 0..(size - 1) : CmpFn(data[i], last'.ret) <= 0 ]_vars

\* C4 amended: the same, as long as no payload whose priority was changed
\* was held in more than one live slot.
C4_TopIsMax ==
    [][ (last'.op = "extract" /\ Live /\ Settled /\ ~aliased /\ size > 0)
        => /\ last'.ret = data[0]
           /\ \A i \in 0..(size - 1) : CmpFn(data[i], last'.ret) <= 0 ]_vars

\* An extraction from a heap of four left three payloads, all of them
\* strictly below the one returned.
C4_Witness ==
    /\ last.op = "extract" /\ last.ret # NULL /\ ~aliased
    /\ size = 3
    /\ \A i \in 0..(size - 1) : key[data[i]] < key[last.ret]

C6_FailedGrowthAtomic ==
    [][ (last'.op = "insert" /\ Live /\ last'.ret = false)
        => /\ size = capacity
           /\ data' = data /\ size' = size /\ capacity' = capacity
           /\ myHeap' = myHeap ]_vars

C6_Witness ==
    /\ Live /\ last.op = "insert" /\ last.ret = false
    /\ size = 2 /\ capacity = 2
    /\ HeapOrder

\* ---- C7
\* C7: a live heap has 0 <= size <= capacity; no step lowers capacity, and
\* capacity changes only in a HeapInsert on a full heap, where it doubles.
C7_Capacity ==
    [][ Live => /\ 0 <= size /\ size <= capacity
                /\ 0 <= size' /\ size' <= capacity'
                /\ capacity' >= capacity
                /\ capacity' # capacity
                   => /\ last'.op = "insert" /\ last'.ret = true
                      /\ size = capacity
                      /\ capacity' = 2 * capacity ]_vars

\* An insert into a full array of two slots has just doubled it.
C7_Witness ==
    /\ Live /\ last.op = "insert" /\ last.ret = true
    /\ capacity = 4 /\ size = 3

\* ---- C8
\* C8: in every run on a freshly created heap, size is the number of
\* successful inserts minus the number of successful extractions, whatever
\* the interleaving and whatever other calls (peeks, updates, failed
\* extractions) came between, and HeapSize returns that number.
C8_Cardinality ==
    /\ size = Len(harness.inserted) - Len(harness.extracted)
    /\ last.op = "size"
       => last.ret = Len(harness.inserted) - Len(harness.extracted)

\* HeapSize answers 1 after three inserts and two extractions, interleaved.
C8_Witness ==
    /\ last.op = "size" /\ last.ret = 1
    /\ Len(harness.inserted) = 3 /\ Len(harness.extracted) = 2
    /\ ~harness.phased

\* ---- C9
\* C9: after every call of a run the heap and its twin, which was created
\* with BigCapacity slots and never grew, have the same size and the same
\* live array contents, and an extraction returned the same payload from
\* both; after GrowthInserts (17) inserts into the heap of capacity 1,
\* HeapSize returns GrowthInserts.
C9_GrowthTransparent ==
    /\ harness.twin.capacity = BigCapacity
    /\ harness.twin.size = size
    /\ \A i \in 0..(size - 1) : harness.twin.data[i] = data[i]
    /\ last.op = "extract" => last.ret = harness.twinRet
    /\ (harness.script = ScriptB /\ last.op = "size") => last.ret = GrowthInserts

\* Scenario B has filled the heap: five doublings took capacity 1 to 32.
C9_Witness ==
    /\ harness.script = ScriptB /\ last.op = "size"
    /\ size = GrowthInserts /\ capacity > GrowthInserts
    /\ capacity # DefaultCapacity
    /\ \E i \in 1..(size - 1) : key[data[i]] > key[data[size - 1]]

\* ---- C10
\* C10: HeapUpdatePriority returns false exactly when the heap is absent,
\* the heap is empty, the reference is NULL or no live slot holds the
\* reference, and then the array, size and capacity are unchanged.
C10_UpdateFailure ==
    [][ last'.op = "update"
        => /\ (last'.ret = false) <=>
                  (~Live \/ size = 0 \/ last'.arg = NULL \/ Slots(last'.arg) = {})
           /\ last'.ret = false
              => (data' = data /\ size' = size /\ capacity' = capacity) ]_vars

\* A reference no slot holds was passed to a heap of three.
C10_Witness ==
    /\ Live /\ last.op = "update" /\ last.ret = false
    /\ last.arg # NULL /\ size = 3
    /\ Slots(last.arg) = {}

\* HeapifyUp(arr, index) performs a swap: its first iteration does.
UpSwaps(arr, index) ==
    index > 0 /\ CmpFn(arr[index], arr[GetParent(index)]) > 0

\* ---- C11
\* C11: HeapPeek and HeapExtract on a live heap of size 0, fresh or drained,
\* return NULL and leave array, size and capacity as they were, each time
\* they are called; size is never negative.
C11_EmptyState ==
    /\ [][ (Live /\ size = 0 /\ last'.op \in {"peek", "extract"})
           => /\ last'.ret = NULL
              /\ data' = data /\ size' = size /\ capacity' = capacity ]_vars
    /\ [](size >= 0)

\* HeapExtract has answered NULL on a heap that was drained: slot 0 still
\* holds the payload that was extracted last.
C11_Witness ==
    /\ Live /\ size = 0
    /\ last.op = "extract" /\ last.ret = NULL
    /\ data[0] \in Refs

\* ---- C12
\* C12: in a successful HeapUpdatePriority on a payload held in exactly one
\* slot of a heap that some former priority of that payload would order,
\* the sift-up from the located index and the sift-down from the same index
\* do not both perform a swap, and the array is left as those two passes
\* leave it.
C12_OnePassMoves ==
    [][ ( /\ last'.op = "update" /\ last'.ret = true
          /\ Cardinality(Slots(last'.arg)) = 1
          /\ \E k0 \in 1..10 :
                HeapOrderUnder([key EXCEPT ![last'.arg] = k0], data, size) )
        => LET up   == HeapifyUp(data, last'.at)
               down == HeapifyDown(up, size, last'.at)
           IN  /\ data' = down
               /\ ~(UpSwaps(data, last'.at) /\ DownSteps(up, size, last'.at) # {}) ]_vars

\* A payload found at the root sank two levels: the sift-down moved it, the
\* sift-up had nothing to do.
C12_Witness ==
    /\ last.op = "update" /\ last.ret = true /\ ~aliased
    /\ last.at = 0 /\ size = 4 /\ data[3] = last.arg
    /\ Cardinality(Slots(last.arg)) = 1

\* ---- C16
\* C16: HeapPeek on a non-empty live heap returns the payload at index 0 and
\* leaves array, size and capacity as they were; a HeapExtract that comes
\* right after a HeapPeek returns what the HeapPeek returned.
C16_PeekPure ==
    [][ /\ (last'.op = "peek" /\ Live /\ size > 0)
           => /\ last'.ret = data[0]
              /\ data' = data /\ size' = size /\ capacity' = capacity
        /\ (last.op = "peek" /\ last'.op = "extract" /\ Live /\ size > 0)
           => last'.ret = last.ret ]_vars

\* HeapPeek has answered on a heap of three whose root outranks the rest.
C16_Witness ==
    /\ Live /\ size = 3
    /\ last.op = "peek" /\ last.ret = data[0]
    /\ key[data[0]] > key[data[size - 1]]

\* The instance the handle names has not been destroyed.
Usable == myHeap # NULL /\ ~released

\* How often payload p occurs in sequence q.
Count(q, p) == Cardinality({i \in DOMAIN q : q[i] = p})

\* ---- C13
\* C13: the destructor is never called while the heap is in use; a
\* HeapDestroy of a usable heap created with a destructor calls it on
\* data[0], data[1], ... data[size-1] in that order and on nothing else, so
\* each payload is passed as many times as live slots hold it (once, when
\* the payloads are distinct); created without a destructor, it calls nothing.
C13_DestroyCompleteness ==
    /\ [](Usable => freed = <<>>)
    /\ [][ (last'.op = "destroy" /\ Usable)
           => /\ last'.ret = true
              /\ released'
              /\ IF freeFn = NULL THEN freed' = <<>>
                 ELSE /\ Len(freed') = size
                      /\ \A i \in 0..(size - 1) : freed'[i + 1] = data[i]
                      /\ \A p \in Refs : Count(freed', p) = Cardinality(Slots(p)) ]_vars

\* A heap of three distinct-priority slots, left after an extraction shrank
\* it, has been destroyed: the destructor saw the three live payloads, in
\* index order, and not the stale one in slot 3.
C13_Witness ==
    /\ last.op = "destroy" /\ last.ret = true /\ released
    /\ freeFn = FREE /\ size = 3 /\ Len(freed) = 3
    /\ capacity = 4 /\ data[3] \in Refs
    /\ freed[1] = data[0] /\ freed[3] = data[2]
    /\ key[freed[1]] > key[freed[3]]

\* ---- C14
\* C14 as stated: every call made with the handle of a destroyed instance
\* fails or does nothing: it returns the failure value of its function,
\* leaves array, size and capacity alone, does not trap and does not call
\* the destructor again.
C14_DestroyedIsInert ==
    [][ (Dangling /\ last'.op \notin {"drop"} /\ last' # last)
        => /\ last'.op # "fault"
           /\ last'.op \in {"insert", "update", "destroy"} => last'.ret = false
           /\ last'.op \in {"extract", "peek"} => last'.ret = NULL
           /\ last'.op = "size" => last'.ret = SizeError
           /\ data' = data /\ size' = size /\ capacity' = capacity
           /\ freed' = freed ]_vars

\* ---- C15
\* C15: a call with a NULL handle returns false (HeapInsert,
\* HeapUpdatePriority, HeapDestroy), NULL (HeapExtract, HeapPeek) or -1
\* (HeapSize) and changes nothing.
C15_NullHandle ==
    [][ (myHeap = NULL /\ last'.op \in {"insert", "update", "destroy",
                                        "extract", "peek", "size"})
        => /\ last'.op \in {"insert", "update", "destroy"} => last'.ret = false
           /\ last'.op \in {"extract", "peek"} => last'.ret = NULL
           /\ last'.op = "size" => last'.ret = SizeError
           /\ UNCHANGED <<myHeap, data, capacity, size, key, pending, aliased,
                          freeFn, released, freed>> ]_vars

\* HeapDestroy has refused a NULL handle.
C15_Witness ==
    /\ myHeap = NULL /\ ~released /\ freed = <<>>
    /\ last.op = "destroy" /\ last.ret = false

QueueUsable == myQueue # NullQueue /\ ~QueueReleased

\* The payloads enqueued and not yet dequeued, oldest first.
Waiting ==
    SubSeq(queueRun.enqueued, Len(queueRun.dequeued) + 1, Len(queueRun.enqueued))

\* ---- C18
\* C18: the payloads the successful QueueDequeue calls returned are, in
\* order, the payloads the first successful QueueEnqueue calls were given,
\* whatever the interleaving and however often head and tail wrapped; and
\* QueuePeek on a non-empty queue returns the payload the next QueueDequeue
\* is to return, the oldest one waiting, and leaves the queue as it was.
C18_Fifo ==
    /\ [](QueueUsable
          => /\ Len(queueRun.dequeued) <= Len(queueRun.enqueued)
             /\ \A k \in 1..Len(queueRun.dequeued) :
                    queueRun.dequeued[k] = queueRun.enqueued[k])
    /\ [][ (QueueUsable /\ queueRun'.last.op = "peek" /\ Waiting # <<>>)
           => /\ queueRun'.last.ret = Waiting[1]
              /\ Dequeue(myQueue).ret = queueRun'.last.ret
              /\ myQueue' = myQueue ]_vars

\* The third dequeue of a queue of two slots: head and tail have both
\* wrapped, and the payload returned differs from the one before it.
C18_Witness ==
    /\ QueueUsable /\ myQueue.capacity = 2
    /\ queueRun.last.op = "dequeue" /\ queueRun.last.ret # NULL
    /\ Len(queueRun.dequeued) = 3 /\ Len(queueRun.enqueued) = 4
    /\ queueRun.dequeued[3] # queueRun.dequeued[2]
    /\ myQueue.head = 1 /\ myQueue.tail = 0

\* ---- C19
\* C19: QueueEnqueue on a queue with size = capacity returns false and
\* leaves the struct (array, head, tail, size, capacity) as it was, so the
\* payloads waiting stay in their slots; with size < capacity it returns
\* true.
C19_Overflow ==
    [][ (QueueUsable /\ queueRun'.last.op = "enqueue")
        => IF myQueue.size = myQueue.capacity
           THEN /\ queueRun'.last.ret = false
                /\ myQueue' = myQueue
           ELSE /\ queueRun'.last.ret = true
                /\ myQueue'.capacity = myQueue.capacity
                /\ \A k \in 1..Len(Waiting) :
                       myQueue'.data[(myQueue.head + k - 1) % myQueue.capacity]
                           = Waiting[k] ]_vars

\* A full queue of three slots, wrapped (head is not 0), has refused a payload.
C19_Witness ==
    /\ QueueUsable /\ myQueue.capacity = 3 /\ myQueue.size = 3
    /\ queueRun.last.op = "enqueue" /\ queueRun.last.ret = false
    /\ myQueue.head = 1 /\ myQueue.tail = 1

\* ---- C20
\* C20: QueueDestroy returns false for a NULL queue and changes nothing;
\* for any other queue it returns true, and the destructor, when one was
\* given, is called on the payloads enqueued and not yet dequeued, oldest
\* first, and on nothing else; when none was given, on nothing.
C20_QueueDestroy ==
    /\ [](QueueUsable => queueRun.freed = <<>>)
    /\ [][ (queueRun'.last.op = "destroy" /\ ~QueueReleased)
           => IF myQueue = NullQueue
              THEN /\ queueRun'.last.ret = false
                   /\ myQueue' = myQueue
                   /\ queueRun'.freed = queueRun.freed
              ELSE /\ queueRun'.last.ret = true
                   /\ queueRun'.freed =
                          IF myQueue.freeFn # NULL THEN Waiting ELSE <<>> ]_vars

\* A wrapped queue of three slots has been destroyed with two payloads
\* waiting, the older one in the last slot and the newer one in slot 0.
C20_Witness ==
    /\ queueRun.last.op = "destroy" /\ queueRun.last.ret = true
    /\ myQueue.capacity = 3 /\ myQueue.freeFn = FREE
    /\ Len(queueRun.dequeued) = 2 /\ Len(queueRun.freed) = 2
    /\ queueRun.freed[1] = myQueue.data[2] /\ queueRun.freed[2] = myQueue.data[0]
    /\ queueRun.freed[1] # queueRun.freed[2]

\* ---- C21
\* C21: StackPop returns the payload pushed last among those not yet popped
\* and NULL when the stack is empty or absent; StackPeek returns the same
\* payload and leaves the struct as it was; StackSize returns the number of
\* successful pushes minus the number of successful pops; a successful
\* StackPush on a full stack doubles capacity, and every successful push
\* leaves the payloads stored before it in their slots.
C21_Lifo ==
    /\ [](myStack # NullStack
          => /\ myStack.top = stackRun.pushes - stackRun.pops
             /\ myStack.top = Len(stackRun.held)
             /\ myStack.top <= myStack.capacity)
    /\ [][ LET op == stackRun'.last.op
               ret == stackRun'.last.ret
               held == stackRun.held
           IN  /\ op = "pop"
                  => /\ ret = IF held = <<>> THEN NULL ELSE held[Len(held)]
                     /\ myStack'.top = IF held = <<>> THEN 0 ELSE myStack.top - 1
               /\ op = "peek"
                  => /\ ret = IF held = <<>> THEN NULL ELSE held[Len(held)]
                     /\ ret = Pop(myStack).ret
                     /\ myStack' = myStack
               /\ op = "size"
                  => ret = IF myStack = NullStack THEN -1
                           ELSE stackRun.pushes - stackRun.pops
               /\ (op = "push" /\ ret = true)
                  => /\ myStack'.capacity = IF myStack.top = myStack.capacity
                                            THEN 2 * myStack.capacity
                                            ELSE myStack.capacity
                     /\ \A i \in 0..(myStack.top - 1) :
                            myStack'.data[i] = held[i + 1]
                     /\ myStack'.data[myStack.top] = stackRun'.last.arg ]_vars

\* A pop after the array grew twice (1, 2, 4 slots): three payloads were
\* pushed, the last of them differs from the one below it and came back.
C21_Witness ==
    /\ myStack.capacity = 4 /\ myStack.top = 2
    /\ stackRun.last.op = "pop" /\ stackRun.last.ret # NULL
    /\ stackRun.pushes = 3 /\ stackRun.pops = 1
    /\ stackRun.last.ret # stackRun.held[2]
    /\ myStack.data[2] = stackRun.last.ret

\* ---- C22
\* C22 as stated: a stack created with a destructor stores it, and when the
\* stack's life ends the destructor has been called on every payload that
\* was left in the stack.
C22_StackDestroy ==
    /\ []((myStack # NullStack /\ stackRun.given # NULL)
          => /\ "freeFn" \in DOMAIN myStack
             /\ myStack.freeFn = stackRun.given)
    /\ [][ (myStack # NullStack /\ myStack' = NullStack /\ stackRun.given # NULL)
           => stackRun'.freed = stackRun.held ]_vars

\* The indices on the path from index i to the root, both included.
RECURSIVE PathToRoot(_)
PathToRoot(i) == IF i <= 0 THEN {0} ELSE {i} \cup PathToRoot(GetParent(i))

\* ---- C23
\* C23: a successful HeapInsert on a live heap raises size by one and, of
\* the slots 0..old size, changes only those on the path from index old
\* size to the root: the new payload ends at the first position q of that
\* path, going up, that is the root or whose parent it does not strictly
\* outrank; each path slot below q holds what its parent held, every path
\* slot above q and every slot off the path holds what it held.
C23_InsertFrame ==
    [][ (last'.op = "insert" /\ last'.ret = true /\ Live)
        => LET d == last'.arg
               path == PathToRoot(size)
           IN  /\ size' = size + 1
               /\ \A i \in 0..(size - 1) : i \notin path => data'[i] = data[i]
               /\ \E q \in path :
                     /\ q = 0 \/ CmpFn(d, data[GetParent(q)]) <= 0
                     /\ \A r \in path : r > q => CmpFn(d, data[GetParent(r)]) > 0
                     /\ data'[q] = d
                     /\ \A r \in path : r > q => data'[r] = data[GetParent(r)]
                     /\ \A r \in path : r < q => data'[r] = data[r] ]_vars

\* The fourth payload rose one level, from index 3 to index 1, and stopped
\* under a root of its own priority; the payload it passed is at index 3
\* and the slot off the path, index 2, holds a payload of lower priority.
C23_Witness ==
    /\ Live /\ last.op = "insert" /\ last.ret = true /\ ~aliased
    /\ size = 4 /\ data[1] = last.arg
    /\ key[data[0]] = key[data[1]]
    /\ key[data[3]] < key[data[1]]
    /\ key[data[2]] < key[data[1]]

\* ---- C24
\* C24: with any oracle, HeapifyUp's current index stays within
\* 0..size-1 and strictly falls each time its loop goes round, and
\* HeapifyDown's stays within 0..size-1 and strictly rises, the parent and
\* the children they read being live slots too; so every HeapInsert,
\* HeapExtract and HeapUpdatePriority that has entered a loop returns.
C24_Terminates ==
    /\ [](~Idle => /\ 0 <= sift.currentIndex /\ sift.currentIndex < size
                   /\ size <= capacity)
    /\ [][ (sift.fn = "HeapifyUp" /\ sift'.fn = "HeapifyUp")
           => /\ 0 <= sift'.currentIndex
              /\ sift'.currentIndex < sift.currentIndex
              /\ sift'.currentIndex = GetParent(sift.currentIndex) ]_vars
    /\ [][ (sift.fn = "HeapifyDown" /\ sift'.fn = "HeapifyDown")
           => /\ sift.currentIndex < sift'.currentIndex
              /\ sift'.currentIndex < size
              /\ sift'.currentIndex \in {GetLeftChild(sift.currentIndex),
                                         GetRightChild(sift.currentIndex)} ]_vars
    /\ (~Idle ~> Idle)

\* Under an oracle by which every payload outranks every payload, itself
\* included, the fourth payload inserted has climbed from index 3 to the
\* root and the loop is about to end there.
C24_Witness ==
    /\ sift.cmpFn = Refs \X Refs
    /\ sift.fn = "HeapifyUp" /\ sift.caller = "insert"
    /\ sift.currentIndex = 0 /\ size = 4
    /\ data[0] = last.arg /\ data[1] # last.arg

\* How many of the live slots arr[0..n-1] hold payload p.
Held(arr, n, p) == Cardinality({i \in 0..(n - 1) : arr[i] = p})

\* ---- C25
\* C25: every call on a live heap leaves each payload in as many live slots
\* as before, one more for the payload of a successful HeapInsert and one
\* less for the payload a HeapExtract returned; so in a run on a fresh heap
\* each payload is held as often as it was inserted minus as often as it
\* was extracted, and no other reference appears in a live slot.
C25_Multiset ==
    /\ [][ Live
           => \A p \in DOMAIN key :
                 Held(data', size', p) =
                     Held(data, size, p)
                     + (IF last'.op = "insert" /\ last'.ret = true /\ last'.arg = p
                        THEN 1 ELSE 0)
                     - (IF last'.op = "extract" /\ size > 0 /\ last'.ret = p
                        THEN 1 ELSE 0) ]_vars
    /\ [](Running
          => /\ \A p \in DOMAIN key :
                   Held(data, size, p) = Count(harness.inserted, p)
                                         - Count(harness.extracted, p)
             /\ \A i \in 0..(size - 1) : data[i] \in DOMAIN key)

\* The run of scenario C after its priority update moved a payload to the
\* root and two extractions followed: three of the five payloads are live.
C25_Witness ==
    /\ harness.script = ScriptC /\ Len(harness.extracted) = 2
    /\ last.op = "extract" /\ size = 3
    /\ harness.extracted[1] = 2
    /\ \A p \in DOMAIN key :
          Held(data, size, p) = IF p \in {1, 3, 4} THEN 1 ELSE 0

\* ---- C26
\* C26: a successful HeapUpdatePriority works from the lowest index that
\* holds the reference it was given: the slots it changes lie on the path
\* from that index to the root or below that index, and a slot that held
\* another occurrence of the reference elsewhere is left as it was.  So
\* when a payload held in several slots has had its priority changed, the
\* call can return true and leave the order invariant violated (the
\* reachable state C26_Witness).
C26_FirstOccurrence ==
    [][ (last'.op = "update" /\ last'.ret = true)
        => LET d == last'.arg
               at == last'.at
           IN  /\ at \in 0..(size - 1) /\ data[at] = d
               /\ \A j \in 0..(at - 1) : data[j] # d
               /\ \A i \in 0..(size - 1) :
                      data'[i] # data[i]
                      => (i \in PathToRoot(at) \/ at \in PathToRoot(i)) ]_vars

\* The call returned true for a payload held in several slots whose
\* priority was lowered: it worked at index 0, where nothing had to move,
\* and the occurrence at index 1 is still outranked by its child at index 3.
C26_Witness ==
    /\ Live /\ last.op = "update" /\ last.ret = true /\ Settled
    /\ last.at = 0 /\ size = 4
    /\ data[0] = last.arg /\ data[1] = last.arg /\ data[3] # last.arg
    /\ CmpFn(data[3], data[1]) > 0
    /\ ~HeapOrder

\* ---- C27
\* C27: HeapUpdatePriority called on a live heap that satisfies the order
\* invariant, with a reference some live slot holds, returns true and
\* leaves array, size and capacity as they were; and a second call with the
\* same reference right after a successful one changes nothing either.
C27_UpdateNoOp ==
    /\ [][ (last'.op = "update" /\ Live /\ HeapOrder
            /\ last'.arg # NULL /\ Slots(last'.arg) # {})
           => /\ last'.ret = true
              /\ data' = data /\ size' = size /\ capacity' = capacity ]_vars
    /\ [][ (last.op = "update" /\ last.ret = true
            /\ last'.op = "update" /\ last'.arg = last.arg)
           => /\ last'.ret = true
              /\ data' = data /\ size' = size /\ capacity' = capacity ]_vars

\* The call returned true for the payload at index 1 of an ordered heap of
\* four with priorities that differ; nothing was waiting to be reported.
C27_Witness ==
    /\ Live /\ last.op = "update" /\ last.ret = true /\ Settled /\ ~aliased
    /\ last.at = 1 /\ size = 4 /\ HeapOrder
    /\ key[data[0]] > key[data[1]]
    /\ data[2] # data[1]

\* ---- C28
\* C28: a queue in use has 0 <= size <= capacity, 0 <= head < capacity,
\* 0 <= tail < capacity and tail = (head + size) mod capacity; the payloads
\* waiting are, oldest first, in the size slots from head on (modulo
\* capacity); and no call changes the capacity of the queue.
C28_RingBuffer ==
    /\ [](QueueUsable
          => /\ 0 < myQueue.capacity
             /\ DOMAIN myQueue.data = 0..(myQueue.capacity - 1)
             /\ 0 <= myQueue.size /\ myQueue.size <= myQueue.capacity
             /\ 0 <= myQueue.head /\ myQueue.head < myQueue.capacity
             /\ 0 <= myQueue.tail /\ myQueue.tail < myQueue.capacity
             /\ myQueue.tail = (myQueue.head + myQueue.size) % myQueue.capacity
             /\ Len(Waiting) = myQueue.size
             /\ \A k \in 1..myQueue.size :
                    myQueue.data[(myQueue.head + k - 1) % myQueue.capacity]
                        = Waiting[k])
    /\ [][ (QueueUsable /\ myQueue' # NullQueue)
           => myQueue'.capacity = myQueue.capacity ]_vars

\* A queue of three slots holds two payloads across the end of the array:
\* head is 2, tail has wrapped to 1, and the two payloads differ.
C28_Witness ==
    /\ QueueUsable /\ myQueue.capacity = 3
    /\ myQueue.head = 2 /\ myQueue.tail = 1 /\ myQueue.size = 2
    /\ queueRun.last.op = "enqueue" /\ queueRun.last.ret = true
    /\ myQueue.data[2] # myQueue.data[0]
    /\ myQueue.data[0] = queueRun.last.arg

\* ---- C29
\* C29 as stated: HeapExtract and HeapPeek called on a live heap of size > 0
\* do not return NULL, whatever payloads the successful HeapInsert calls
\* were given, NULL included.
C29_NeverNull ==
    [][ (last'.op \in {"extract", "peek"} /\ Live /\ size > 0)
        => last'.ret # NULL ]_vars

====
